---- MODULE Spec2Model ----
(***************************************************************************)
(* Model of the ulys crate: the 128-bit identifier (src/src/lib.rs), its   *)
(* Base32 codec (src/src/base32.rs), construction from a datetime          *)
(* (src/src/time.rs), the monotonic generator (src/src/generator.rs) and   *)
(* the bulk generation loop of the command line tool                       *)
(* (src/cli/src/bin/ulys.rs).                                              *)
(*                                                                         *)
(* Fixed-width unsigned integers (u16, u64, u128) keep their width: a      *)
(* value is the sequence of its 16-bit limbs, most significant first, so   *)
(* that shifts and casts lose exactly the bits the machine type loses.     *)
(* A string is the sequence of its UTF-8 bytes.                            *)
(***************************************************************************)
EXTENDS Integers, Sequences, FiniteSets, TLC

VARIABLES previous, log, codec, core, cli, clock

vars == <<previous, log, codec, core, cli, clock>>

(***************************************************************************)
(* Bounds of the exploration.                                              *)
(***************************************************************************)
\* number of generate calls made on the one Generator
MaxCalls == 3
\* wrong-length strings are up to MaxExtra bytes longer than ULYS_LEN
MaxExtra == 2
\* sample 128-bit values lie within MaxDelta of zero and of the maximum
MaxDelta == 1
\* the command line asks for up to MaxCount identifiers
MaxCount == 2

(***************************************************************************)
(* Machine integers.  A value of type uW is the sequence of its W/16       *)
(* 16-bit limbs, most significant first.                                   *)
(***************************************************************************)
W16 == 16
W64 == 64
W128 == 128

\* the sequence f as an explicit tuple of its n elements
Tuple(f, n) == SubSeq(f, 1, n)

Zero(w) == Tuple([i \in 1..(w \div 16) |-> 0], w \div 16)

Ones(w) == Tuple([i \in 1..(w \div 16) |-> 65535], w \div 16)

\* the uW value of a natural number n < 2^31
FromNat(n, w) ==
    LET k == w \div 16
    IN  Tuple([i \in 1..k |-> IF i = k THEN n % 65536
                              ELSE IF i = k - 1 THEN (n \div 65536) % 65536 ELSE 0], k)

\* limb k of v, zero outside v
Limb(v, k) == IF k >= 1 /\ k <= Len(v) THEN v[k] ELSE 0

\* the natural number of a value below 2^16 (an index)
ToNat(v) == v[Len(v)]

\* `v as uW`: keep the low w bits, or zero-extend
Cast(v, w) ==
    LET n == Len(v)
        k == w \div 16
    IN  Tuple([i \in 1..k |-> Limb(v, i + n - k)], k)

\* v << s at the width of v: the high s bits are lost
Shl(v, s) ==
    LET q == s \div 16
        r == s % 16
    IN  Tuple([i \in 1..Len(v) |->
                  ((Limb(v, i + q) * (2 ^ r)) % 65536) + (Limb(v, i + q + 1) \div (2 ^ (16 - r)))],
              Len(v))

\* v >> s at the width of v
Shr(v, s) ==
    LET q == s \div 16
        r == s % 16
    IN  Tuple([i \in 1..Len(v) |->
                  (Limb(v, i - q) \div (2 ^ r)) + ((Limb(v, i - q - 1) % (2 ^ r)) * (2 ^ (16 - r)))],
              Len(v))

RECURSIVE And16(_, _)
And16(a, b) ==
    IF a = 0 \/ b = 0 THEN 0
    ELSE 2 * And16(a \div 2, b \div 2) + (IF a % 2 = 1 /\ b % 2 = 1 THEN 1 ELSE 0)

RECURSIVE Or16(_, _)
Or16(a, b) ==
    IF a = 0 THEN b
    ELSE IF b = 0 THEN a
    ELSE 2 * Or16(a \div 2, b \div 2) + (IF a % 2 = 1 \/ b % 2 = 1 THEN 1 ELSE 0)

BitAnd(a, b) == Tuple([i \in 1..Len(a) |-> And16(a[i], b[i])], Len(a))

BitOr(a, b) == Tuple([i \in 1..Len(a) |-> Or16(a[i], b[i])], Len(a))

BitNot(a) == Tuple([i \in 1..Len(a) |-> 65535 - a[i]], Len(a))

\* v + 1 at the width of v (wrapping)
AddOne(v) ==
    Tuple([i \in 1..Len(v) |->
              IF \A j \in (i + 1)..Len(v) : v[j] = 65535 THEN (v[i] + 1) % 65536 ELSE v[i]],
          Len(v))

\* a < b for two values of one width
Lt(a, b) == \E i \in 1..Len(a) : a[i] < b[i] /\ \A j \in 1..(i - 1) : a[j] = b[j]

Le(a, b) == a = b \/ Lt(a, b)

\* bitmask!(len) at width w: (1 << len) - 1
bitmask(len, w) ==
    LET k == w \div 16
    IN  Tuple([i \in 1..k |-> IF 16 * (k - i + 1) <= len THEN 65535
                              ELSE IF 16 * (k - i) >= len THEN 0
                              ELSE 2 ^ (len - 16 * (k - i)) - 1], k)

(***************************************************************************)
(* Identifier core (lib.rs).                                               *)
(***************************************************************************)
TIME_BITS == 48
RAND_BITS == 80

Some(v) == [some |-> TRUE, value |-> v]

None == [some |-> FALSE, value |-> Zero(W128)]

nil == Zero(W128)

from_parts_unmasked_random(timestamp_ms_arg, random_arg) ==
    LET time_part == Cast(BitAnd(timestamp_ms_arg, bitmask(TIME_BITS, W64)), W128)
    IN  BitOr(Shl(time_part, RAND_BITS), random_arg)

from_parts(timestamp_ms_arg, random_arg) ==
    LET time_part == Cast(BitAnd(timestamp_ms_arg, bitmask(TIME_BITS, W64)), W128)
        rand_part == BitAnd(random_arg, bitmask(RAND_BITS, W128))
    IN  BitOr(Shl(time_part, RAND_BITS), rand_part)

timestamp_ms(id) == Cast(Shr(id, RAND_BITS), W64)

random(id) == BitAnd(id, bitmask(RAND_BITS, W128))

MAX_RANDOM == bitmask(RAND_BITS, W128)

increment_until_wrap(id) ==
    IF id = Ones(W128) THEN None ELSE Some(AddOne(id))

increment(id) ==
    IF BitAnd(id, MAX_RANDOM) = MAX_RANDOM THEN None ELSE Some(AddOne(id))

\* From<(u64, u64)> for Ulys
from_pair(msb, lsb) == BitOr(Shl(Cast(msb, W128), 64), Cast(lsb, W128))

\* From<Ulys> for (u64, u64)
to_pair(id) == <<Cast(Shr(id, 64), W64), Cast(BitAnd(id, bitmask(64, W128)), W64)>>

\* u128::from_be_bytes: two bytes make one limb
from_be_bytes(bytes) == Tuple([k \in 1..8 |-> bytes[2 * k - 1] * 256 + bytes[2 * k]], 8)

\* u128::to_le_bytes
to_le_bytes(v) ==
    Tuple([i \in 1..16 |-> IF i % 2 = 1 THEN v[8 - (i \div 2)] % 256
                           ELSE v[9 - (i \div 2)] \div 256], 16)

\* u128::to_be_bytes: a limb makes two bytes, the high one first
to_be_bytes(v) ==
    Tuple([i \in 1..16 |-> IF i % 2 = 1 THEN v[(i + 1) \div 2] \div 256
                           ELSE v[i \div 2] % 256], 16)

from_bytes(bytes) == from_be_bytes(bytes)

to_bytes(id) == to_be_bytes(id)

\* Result<_, _>
Ok(v) == [ok |-> TRUE, value |-> v, err |-> "none"]

Err(e) == [ok |-> FALSE, value |-> Zero(W128), err |-> e]

(***************************************************************************)
(* Base32 codec (base32.rs).  A string is the sequence of its bytes; the   *)
(* Rust tables are indexed from 0, the sequences here from 1.              *)
(***************************************************************************)
ULYS_LEN == 26

\* the RFC 4648 alphabet b"abcdefghijklmnopqrstuvwxyz234567", letters before digits
ALPHABET_rfc4648 == <<
    97, 98, 99, 100, 101, 102, 103, 104, 105, 106, 107, 108, 109, 110, 111, 112,
    113, 114, 115, 116, 117, 118, 119, 120, 121, 122, 50, 51, 52, 53, 54, 55
>>

\* b"0123456789abcdefghjkmnpqrstvwxyz"
ALPHABET == <<
    48, 49, 50, 51, 52, 53, 54, 55, 56, 57, 97, 98, 99, 100, 101, 102,
    103, 104, 106, 107, 109, 110, 112, 113, 114, 115, 116, 118, 119, 120, 121, 122
>>

NO_VALUE == 255

LOOKUP_table == <<
    255, 255, 255, 255, 255, 255, 255, 255, 255, 255, 255, 255, 255, 255, 255, 255, 255, 255, 255,
    255, 255, 255, 255, 255, 255, 255, 255, 255, 255, 255, 255, 255, 255, 255, 255, 255, 255, 255,
    255, 255, 255, 255, 255, 255, 255, 255, 255, 255, 0, 1, 2, 3, 4, 5, 6, 7, 8, 9, 255, 255, 255,
    255, 255, 255, 255, 255, 255, 255, 255, 255, 255, 255, 255, 255, 255, 255, 255, 255, 255, 255,
    255, 255, 255, 255, 255, 255, 255, 255, 255, 255, 255, 255, 255, 255, 255, 255, 255, 10, 11,
    12, 13, 14, 15, 16, 17, 255, 18, 19, 255, 20, 21, 255, 22, 23, 24, 25, 26, 255, 27, 28, 29, 30,
    31, 255, 255, 255, 255, 255, 255, 10, 11, 12, 13, 14, 15, 16, 17, 255, 18, 19, 255, 20, 21,
    255, 22, 23, 24, 25, 26, 255, 27, 28, 29, 30, 31, 255, 255, 255, 255, 255, 255, 255, 255, 255,
    255, 255, 255, 255, 255, 255, 255, 255, 255, 255, 255, 255, 255, 255, 255, 255, 255, 255, 255,
    255, 255, 255, 255, 255, 255, 255, 255, 255, 255, 255, 255, 255, 255, 255, 255, 255, 255, 255,
    255, 255, 255, 255, 255, 255, 255, 255, 255, 255, 255, 255, 255, 255, 255, 255, 255, 255, 255,
    255, 255, 255, 255, 255, 255, 255, 255, 255, 255, 255, 255, 255, 255, 255, 255, 255, 255, 255,
    255, 255, 255, 255, 255, 255, 255, 255, 255, 255, 255, 255, 255, 255, 255, 255
>>

\* the table with Crockford's aliases: i and l read as 1, o read as 0
LOOKUP_crockford ==
    [LOOKUP_table EXCEPT ![105 + 1] = 1, ![108 + 1] = 1, ![111 + 1] = 0]

LOOKUP == LOOKUP_table

\* the loop filling the buffer from its first byte
RECURSIVE encode_loop_forward(_, _, _)
encode_loop_forward(value, buffer, i) ==
    IF i >= ULYS_LEN THEN buffer
    ELSE encode_loop_forward(Shr(value, 5),
                             [buffer EXCEPT ![i + 1] =
                                  ALPHABET[ToNat(BitAnd(value, FromNat(31, W128))) + 1]],
                             i + 1)

\* the loop with a sign-extending (arithmetic) shift
RECURSIVE encode_loop_sign_extend(_, _, _)
encode_loop_sign_extend(value, buffer, i) ==
    IF i >= ULYS_LEN THEN buffer
    ELSE encode_loop_sign_extend(
             BitOr(Shr(value, 5),
                   IF value[1] >= 32768 THEN BitNot(Shr(Ones(W128), 5)) ELSE Zero(W128)),
             [buffer EXCEPT ![(ULYS_LEN - 1 - i) + 1] =
                  ALPHABET[ToNat(BitAnd(value, FromNat(31, W128))) + 1]],
             i + 1)

RECURSIVE encode_loop(_, _, _)
encode_loop(value, buffer, i) ==
    IF i >= ULYS_LEN THEN buffer
    ELSE encode_loop(Shr(value, 5),
                     [buffer EXCEPT ![(ULYS_LEN - 1 - i) + 1] =
                          ALPHABET[ToNat(BitAnd(value, FromNat(31, W128))) + 1]],
                     i + 1)

\* encode_to refusing a buffer of exactly ULYS_LEN bytes
encode_to_needs_spare_byte(value, buffer) ==
    IF Len(buffer) <= ULYS_LEN
    THEN [result |-> Err("BufferTooSmall"), buffer |-> buffer]
    ELSE [result |-> Ok(ULYS_LEN), buffer |-> encode_loop(value, buffer, 0)]

\* the Result and the caller's buffer after the call
encode_to(value, buffer) ==
    IF Len(buffer) < ULYS_LEN
    THEN [result |-> Err("BufferTooSmall"), buffer |-> buffer]
    ELSE [result |-> Ok(ULYS_LEN), buffer |-> encode_loop(value, buffer, 0)]

\* encode of the low 64 bits only
encode_to_array_low64(value, buffer) == encode_loop(Cast(Cast(value, W64), W128), buffer, 0)

encode_to_array(value, buffer) == encode_loop(value, buffer, 0)

encode(value) == encode_to_array(value, Tuple([i \in 1..ULYS_LEN |-> 0], ULYS_LEN))

\* the while loop of decode after n iterations: Ok(value) while it runs,
\* Err(InvalidChar) once an iteration has returned early
RECURSIVE decode_loop(_, _)
decode_loop(bytes, n) ==
    IF n = 0 THEN Ok(Zero(W128))
    ELSE LET before == decode_loop(bytes, n - 1)
             i      == n - 1
             val    == LOOKUP[bytes[i + 1] + 1]
         IN  IF ~before.ok THEN before
             ELSE IF val = NO_VALUE THEN Err("InvalidChar")
             ELSE Ok(BitOr(Shl(before.value, 5), FromNat(val, W128)))

\* decode rejecting only strings that are too short
decode_accepts_longer(encoded) ==
    IF Len(encoded) < ULYS_LEN THEN Err("InvalidLength")
    ELSE decode_loop(encoded, ULYS_LEN)

\* decode reading the symbols from the last to the first
decode_reversed(encoded) ==
    IF Len(encoded) # ULYS_LEN THEN Err("InvalidLength")
    ELSE decode_loop([i \in 1..ULYS_LEN |-> encoded[ULYS_LEN + 1 - i]], ULYS_LEN)

\* decode refusing a first symbol whose value does not fit in 128 bits
decode_range_checked(encoded) ==
    IF Len(encoded) # ULYS_LEN THEN Err("InvalidLength")
    ELSE IF LOOKUP[encoded[1] + 1] # NO_VALUE /\ LOOKUP[encoded[1] + 1] >= 8
         THEN Err("InvalidChar")
         ELSE decode_loop(encoded, ULYS_LEN)

decode(encoded) ==
    IF Len(encoded) # ULYS_LEN THEN Err("InvalidLength")
    ELSE decode_loop(encoded, ULYS_LEN)

\* Ulys::from_string and Ulys::to_string
from_string(encoded) == decode(encoded)

to_string(id) == encode(id)

\* Ulys::to_str: the Result (the str borrowed from buf[..len]) and buf after
to_str(id, buf) ==
    LET r == encode_to(id, buf)
    IN  IF ~r.result.ok THEN r
        ELSE [result |-> Ok(SubSeq(r.buffer, 1, r.result.value)), buffer |-> r.buffer]

\* str::to_lowercase on an ASCII string
lowercase(s) ==
    Tuple([i \in 1..Len(s) |-> IF s[i] >= 65 /\ s[i] <= 90 THEN s[i] + 32 ELSE s[i]], Len(s))

\* str::to_uppercase on an ASCII string
uppercase(s) ==
    Tuple([i \in 1..Len(s) |-> IF s[i] >= 97 /\ s[i] <= 122 THEN s[i] - 32 ELSE s[i]], Len(s))

\* byte-wise lexicographic order of two strings (str's Ord)
str_lt(s, t) ==
    \/ \E i \in 1..Len(s) : /\ i <= Len(t)
                            /\ s[i] < t[i]
                            /\ \A j \in 1..(i - 1) : s[j] = t[j]
    \/ Len(s) < Len(t) /\ \A j \in 1..Len(s) : s[j] = t[j]

(***************************************************************************)
(* Construction from a datetime (time.rs).  A SystemTime is its distance   *)
(* from the Unix epoch in whole milliseconds and the side it lies on; the  *)
(* inputs of the one-shot construction also carry the nanoseconds beyond   *)
(* the whole milliseconds, which as_millis drops.                          *)
(***************************************************************************)
\* datetime.duration_since(UNIX_EPOCH).unwrap_or(Duration::ZERO).as_millis()
millis_since_epoch(datetime) ==
    IF datetime.before_epoch THEN Zero(W128) ELSE datetime.millis

\* construction without the clamp at the epoch
from_datetime_unclamped(datetime, r16, r64) ==
    LET timebits == Cast(BitAnd(datetime.millis, bitmask(TIME_BITS, W128)), W64)
    IN  from_pair(BitOr(Shl(timebits, 16), Cast(r16, W64)), r64)

from_datetime_with_source(datetime, r16, r64) ==
    LET timestamp == millis_since_epoch(datetime)
        timebits  == Cast(BitAnd(timestamp, bitmask(TIME_BITS, W128)), W64)
        msb       == BitOr(Shl(timebits, 16), Cast(r16, W64))
        lsb       == r64
    IN  from_pair(msb, lsb)

UNIX_EPOCH == [before_epoch |-> FALSE, millis |-> Zero(W128), nanos |-> 0]

\* Ulys::datetime: UNIX_EPOCH + Duration::from_millis(stamp)
datetime_of(id) ==
    LET stamp == timestamp_ms(id)
    IN  [before_epoch |-> FALSE, millis |-> Cast(stamp, W128), nanos |-> 0]

(***************************************************************************)
(* Monotonic generator (generator.rs).                                     *)
(***************************************************************************)
\* the generator with the stored identifier cleared on Overflow
generate_overflow_resets(prev, datetime, r16, r64) ==
    LET last_ms == timestamp_ms(prev)
    IN  IF Le(millis_since_epoch(datetime), Cast(last_ms, W128))
        THEN LET next == increment(prev)
             IN  IF next.some
                 THEN [previous |-> next.value, result |-> Ok(next.value), drawn |-> 0]
                 ELSE [previous |-> nil, result |-> Err("Overflow"), drawn |-> 0]
        ELSE LET next == from_datetime_with_source(datetime, r16, r64)
             IN  [previous |-> next, result |-> Ok(next), drawn |-> 2]

\* the generator comparing with < where the code compares with <=
generate_strict_compare(prev, datetime, r16, r64) ==
    LET last_ms == timestamp_ms(prev)
    IN  IF Lt(millis_since_epoch(datetime), Cast(last_ms, W128))
        THEN LET next == increment(prev)
             IN  IF next.some
                 THEN [previous |-> next.value, result |-> Ok(next.value), drawn |-> 0]
                 ELSE [previous |-> prev, result |-> Err("Overflow"), drawn |-> 0]
        ELSE LET next == from_datetime_with_source(datetime, r16, r64)
             IN  [previous |-> next, result |-> Ok(next), drawn |-> 2]

\* the generator comparing the supplied time as it would be stored, mod 2^48
generate_truncated_compare(prev, datetime, r16, r64) ==
    LET last_ms == timestamp_ms(prev)
        now_ms == BitAnd(millis_since_epoch(datetime), bitmask(TIME_BITS, W128))
    IN  IF Le(now_ms, Cast(last_ms, W128))
        THEN LET next == increment(prev)
             IN  IF next.some
                 THEN [previous |-> next.value, result |-> Ok(next.value), drawn |-> 0]
                 ELSE [previous |-> prev, result |-> Err("Overflow"), drawn |-> 0]
        ELSE LET next == from_datetime_with_source(datetime, r16, r64)
             IN  [previous |-> next, result |-> Ok(next), drawn |-> 2]

\* the generator stamping the supplied time on the incremented identifier
generate_restamps(prev, datetime, r16, r64) ==
    LET last_ms == timestamp_ms(prev)
        now_ms == millis_since_epoch(datetime)
    IN  IF Le(now_ms, Cast(last_ms, W128))
        THEN LET next == increment(prev)
             IN  IF next.some
                 THEN LET stamped == from_parts(Cast(now_ms, W64), random(next.value))
                      IN  [previous |-> stamped, result |-> Ok(stamped), drawn |-> 0]
                 ELSE [previous |-> prev, result |-> Err("Overflow"), drawn |-> 0]
        ELSE LET next == from_datetime_with_source(datetime, r16, r64)
             IN  [previous |-> next, result |-> Ok(next), drawn |-> 2]

\* the new `previous`, the returned Result and the number of values taken
\* from the random source in one call
generate_from_datetime_with_source(prev, datetime, r16, r64) ==
    LET last_ms == timestamp_ms(prev)
    IN  IF Le(millis_since_epoch(datetime), Cast(last_ms, W128))
        THEN LET next == increment(prev)
             IN  IF next.some
                 THEN [previous |-> next.value, result |-> Ok(next.value), drawn |-> 0]
                 ELSE [previous |-> prev, result |-> Err("Overflow"), drawn |-> 0]
        ELSE LET next == from_datetime_with_source(datetime, r16, r64)
             IN  [previous |-> next, result |-> Ok(next), drawn |-> 2]

(***************************************************************************)
(* Inputs of the generator: datetimes before, at and just after the epoch, *)
(* and around 2^48 ms where the 48-bit timestamp field wraps; random draws *)
(* that are zero, saturated, or one short of saturated.                    *)
(***************************************************************************)
\* 2^48 as a u128
TimeWrap == Shl(FromNat(1, W128), TIME_BITS)

Millis ==
    {FromNat(0, W128), FromNat(1, W128),
     Cast(Ones(TIME_BITS), W128),
     TimeWrap, BitOr(TimeWrap, FromNat(1, W128))}

Datetimes ==
    {[before_epoch |-> TRUE, millis |-> FromNat(1, W128)]}
    \cup {[before_epoch |-> FALSE, millis |-> m] : m \in Millis}

\* what the random source returns for gen::<u16>() and gen::<u64>()
Draws ==
    {<<Zero(W16), Zero(W64)>>,
     <<Ones(W16), Ones(W64)>>,
     <<Ones(W16), BitNot(FromNat(1, W64))>>}

(***************************************************************************)
(* Inputs of the codec.                                                    *)
(***************************************************************************)
Deltas == 0..MaxDelta

\* 128-bit values: near zero and near the maximum, the corners of the two
\* fields, single bits at symbol boundaries, and the patterns of the tests
Values ==
    {FromNat(k, W128) : k \in Deltas}
    \cup {BitNot(FromNat(k, W128)) : k \in Deltas}
    \cup {from_parts(t, r) : t \in {FromNat(1, W64), Ones(W64)},
                             r \in {Zero(W128), FromNat(1, W128), Ones(W128)}}
    \cup {Shl(FromNat(1, W128), j) : j \in {4, 5, 79, 80, 124, 125, 127}}
    \cup {Tuple([i \in 1..8 |-> 16705], 8), Tuple([i \in 1..8 |-> 3855], 8)}

\* every single bit of a 128-bit value
SingleBits == {Shl(FromNat(1, W128), j) : j \in 0..(W128 - 1)}

\* the string of n bytes c
Repeat(c, n) == Tuple([i \in 1..n |-> c], n)

\* s with the byte at position p replaced by c
ReplaceAt(s, p, c) == [s EXCEPT ![p] = c]

\* upper case at the odd positions
MixedCase(s) ==
    Tuple([i \in 1..Len(s) |-> IF i % 2 = 1 THEN uppercase(s)[i] ELSE s[i]], Len(s))

AlphabetBytes == {ALPHABET[i] : i \in 1..32}

\* the upper-case forms of the alphabet's letters
UpperBytes == {c - 32 : c \in {b \in AlphabetBytes : b >= 97}}

\* "21850m2ga1850m2ga1850m2ga1" and "2d9rw50ma499cmaghm6dd42dtp" (test_valid)
TestText1 == <<50, 49, 56, 53, 48, 109, 50, 103, 97, 49, 56, 53, 48, 109, 50, 103, 97,
               49, 56, 53, 48, 109, 50, 103, 97, 49>>

TestText2 == <<50, 100, 57, 114, 119, 53, 48, 109, 97, 52, 57, 57, 99, 109, 97, 103, 104,
               109, 54, 100, 100, 52, 50, 100, 116, 112>>

\* 26-byte strings over the alphabet, every first symbol included
AlphabetTexts ==
    {Repeat(c, ULYS_LEN) : c \in AlphabetBytes}
    \cup {ReplaceAt(TestText1, 1, c) : c \in AlphabetBytes}
    \cup {ReplaceAt(Repeat(122, ULYS_LEN), 1, c) : c \in AlphabetBytes}
    \cup {TestText1, TestText2}

\* the same strings written in upper and in mixed case
CasedTexts ==
    {uppercase(s) : s \in AlphabetTexts} \cup {MixedCase(s) : s \in AlphabetTexts}

\* one ASCII byte of any value at any position
OneByteTexts ==
    {ReplaceAt(TestText2, p, c) : p \in 1..ULYS_LEN, c \in 0..127}

\* one two-byte UTF-8 character (lead byte, continuation byte) at any position
TwoByteTexts ==
    {ReplaceAt(ReplaceAt(TestText2, p, lead), p + 1, cont) :
        p \in 1..(ULYS_LEN - 1), lead \in {194, 195, 223}, cont \in {128, 129, 154, 191}}

\* strings of every length from 0 to ULYS_LEN + MaxExtra except ULYS_LEN,
\* of alphabet symbols only or with a byte outside it
WrongLengthTexts ==
    LET long == {TestText2 \o Repeat(c, MaxExtra) : c \in {112, 80, 91, 195}}
    IN  {SubSeq(s, 1, n) : s \in long, n \in (0..(ULYS_LEN + MaxExtra)) \ {ULYS_LEN}}
        \cup {SubSeq(ReplaceAt(s, 1, c), 1, n) :
                 s \in long, c \in {91, 73}, n \in (1..(ULYS_LEN + MaxExtra)) \ {ULYS_LEN}}

Texts == AlphabetTexts \cup CasedTexts \cup OneByteTexts \cup TwoByteTexts
         \cup WrongLengthTexts

(***************************************************************************)
(* State machine of one Generator.  log records, for every call made, the  *)
(* datetime supplied, `previous` as the call found it and the Result.      *)
(***************************************************************************)
Init ==
    /\ previous = nil
    /\ log = <<>>
    /\ codec = <<>>
    /\ core = <<>>
    /\ cli = [pc |-> "main", count |-> 0, i |-> 0, gen |-> nil, out |-> <<>>]
    /\ clock = FromNat(0, W128)

\* Generator::generate_from_datetime_with_source on the one generator
Generate(datetime, r16, r64) ==
    /\ Len(log) < MaxCalls
    /\ LET out == generate_from_datetime_with_source(previous, datetime, r16, r64)
       IN  /\ previous' = out.previous
           /\ log' = Append(log, [datetime |-> datetime, before |-> previous,
                                  result |-> out.result, drawn |-> out.drawn])
    /\ UNCHANGED <<codec, core, cli, clock>>

Next ==
    \E datetime \in Datetimes, d \in Draws : Generate(datetime, d[1], d[2])

Spec == Init /\ [][Next]_vars

(***************************************************************************)
(* Calls of the codec.  codec records the calls of one session: an encode  *)
(* or decode of an input, then possibly a call on the first call's output  *)
(* or a second encode.                                                     *)
(***************************************************************************)
EncodeCall(v) ==
    [fn |-> "encode", value |-> v, text |-> to_string(v), ok |-> TRUE, err |-> "none"]

DecodeCall(s) ==
    LET r == from_string(s)
    IN  [fn |-> "decode", value |-> r.value, text |-> s, ok |-> r.ok, err |-> r.err]

\* Ulys(v).to_string()
Encode(v) ==
    /\ codec = <<>>
    /\ codec' = <<EncodeCall(v)>>
    /\ UNCHANGED <<previous, log, core, cli, clock>>

\* Ulys::from_string(s)
Decode(s) ==
    /\ codec = <<>>
    /\ codec' = <<DecodeCall(s)>>
    /\ UNCHANGED <<previous, log, core, cli, clock>>

\* a second, independent to_string
EncodeAnother(v) ==
    /\ Len(codec) = 1
    /\ codec[1].fn = "encode"
    /\ codec' = Append(codec, EncodeCall(v))
    /\ UNCHANGED <<previous, log, core, cli, clock>>

\* Ulys::from_string(&Ulys(v).to_string())
DecodeEncoded ==
    /\ Len(codec) = 1
    /\ codec[1].fn = "encode"
    /\ codec' = Append(codec, DecodeCall(codec[1].text))
    /\ UNCHANGED <<previous, log, core, cli, clock>>

\* Ulys::from_string(s).unwrap().to_string()
EncodeDecoded ==
    /\ Len(codec) = 1
    /\ codec[1].fn = "decode"
    /\ codec[1].ok
    /\ codec' = Append(codec, EncodeCall(codec[1].value))
    /\ UNCHANGED <<previous, log, core, cli, clock>>

NextCodec ==
    \/ \E v \in Values \cup SingleBits : Encode(v)
    \/ \E s \in Texts : Decode(s)
    \/ \E v \in Values : EncodeAnother(v)
    \/ DecodeEncoded
    \/ EncodeDecoded

SpecCodec == Init /\ [][NextCodec]_vars

(***************************************************************************)
(* Calls of the identifier's own operations (lib.rs, time.rs).  core       *)
(* records the calls of one session: a call on an input, then possibly a   *)
(* call on the first call's result.                                        *)
(***************************************************************************)
\* 2^j - 1 for the j where increment carries into or across the random field
LowOnes == {BitNot(Shl(Ones(W128), j)) : j \in {16, 32, 64, 79, 80, 81, 96}}

Ids == Values \cup SingleBits \cup LowOnes

CoreCall(fn, arg, ret) == [fn |-> fn, arg |-> arg, ret |-> ret]

\* Ulys(id).increment()
Increment(id) ==
    /\ core = <<>>
    /\ core' = <<CoreCall("increment", id, increment(id))>>
    /\ UNCHANGED <<previous, log, codec, cli, clock>>

\* u64 timestamps: within 48 bits, at its edge and beyond it
Timestamps ==
    {FromNat(0, W64), FromNat(1, W64), bitmask(TIME_BITS, W64),
     Shl(FromNat(1, W64), TIME_BITS), BitOr(Shl(FromNat(1, W64), TIME_BITS), FromNat(1, W64)),
     Shl(FromNat(1, W64), 63), Ones(W64)}

\* u128 randoms: within 80 bits, at its edge and beyond it
Randoms ==
    {FromNat(0, W128), FromNat(1, W128), bitmask(RAND_BITS, W128),
     Shl(FromNat(1, W128), RAND_BITS), BitOr(Shl(FromNat(1, W128), RAND_BITS), FromNat(1, W128)),
     Shl(FromNat(1, W128), 79), Shl(FromNat(1, W128), 127), Ones(W128)}

\* Ulys::from_parts(t, r)
FromParts(t, r) ==
    /\ core = <<>>
    /\ core' = <<CoreCall("from_parts", <<t, r>>, from_parts(t, r))>>
    /\ UNCHANGED <<previous, log, codec, cli, clock>>

\* Ulys::from_parts(id.timestamp_ms(), id.random())
Reassemble(id) ==
    /\ core = <<>>
    /\ core' = <<CoreCall("reassemble", id, from_parts(timestamp_ms(id), random(id)))>>
    /\ UNCHANGED <<previous, log, codec, cli, clock>>

\* caller-supplied buffers of every length up to ULYS_LEN + MaxExtra: filled
\* with one byte, or with a different byte at every index
Buffers ==
    UNION {{Repeat(0, n), Repeat(170, n), Tuple([i \in 1..n |-> 200 + i], n)} :
               n \in 0..(ULYS_LEN + MaxExtra)}

\* base32::encode_to(value, &mut buffer)
EncodeTo(value, buffer) ==
    /\ core = <<>>
    /\ core' = <<CoreCall("encode_to", <<value, buffer>>, encode_to(value, buffer))>>
    /\ UNCHANGED <<previous, log, codec, cli, clock>>

\* Ulys(id).to_str(&mut buf)
ToStr(id, buf) ==
    /\ core = <<>>
    /\ core' = <<CoreCall("to_str", <<id, buf>>, to_str(id, buf))>>
    /\ UNCHANGED <<previous, log, codec, cli, clock>>

\* [u8; 16] values: one byte repeated, all bytes different, one bit set
ByteArrays ==
    {Repeat(b, 16) : b \in {0, 65, 255}}
    \cup {Tuple([i \in 1..16 |-> 15 * i + 1], 16)}
    \cup {ReplaceAt(Repeat(0, 16), p, b) : p \in 1..16, b \in {1, 128}}

\* (u64, u64) values
Pairs == Timestamps \X Timestamps

\* Ulys(id).to_bytes(), <[u8; 16]>::from(Ulys(id))
ToBytes(id) ==
    /\ core = <<>>
    /\ core' = <<CoreCall("to_bytes", id, to_bytes(id))>>
    /\ UNCHANGED <<previous, log, codec, cli, clock>>

\* Ulys::from_bytes(bytes), Ulys::from(bytes)
FromBytes(bytes) ==
    /\ core = <<>>
    /\ core' = <<CoreCall("from_bytes", bytes, from_bytes(bytes))>>
    /\ UNCHANGED <<previous, log, codec, cli, clock>>

\* <(u64, u64)>::from(Ulys(id))
ToPair(id) ==
    /\ core = <<>>
    /\ core' = <<CoreCall("to_pair", id, to_pair(id))>>
    /\ UNCHANGED <<previous, log, codec, cli, clock>>

\* Ulys::from((msb, lsb))
FromPair(pair) ==
    /\ core = <<>>
    /\ core' = <<CoreCall("from_pair", pair, from_pair(pair[1], pair[2]))>>
    /\ UNCHANGED <<previous, log, codec, cli, clock>>

\* the opposite conversion, applied to the result of the first call
ConvertBack ==
    /\ Len(core) = 1
    /\ core[1].fn \in {"to_bytes", "from_bytes", "to_pair", "from_pair"}
    /\ LET x == core[1].ret
       IN  core' = Append(core,
               CASE core[1].fn = "to_bytes" -> CoreCall("from_bytes", x, from_bytes(x))
                 [] core[1].fn = "from_bytes" -> CoreCall("to_bytes", x, to_bytes(x))
                 [] core[1].fn = "to_pair" -> CoreCall("from_pair", x, from_pair(x[1], x[2]))
                 [] core[1].fn = "from_pair" -> CoreCall("to_pair", x, to_pair(x)))
    /\ UNCHANGED <<previous, log, codec, cli, clock>>

\* SystemTime values with the nanoseconds beyond the whole milliseconds,
\* which as_millis drops, on either side of the epoch
Instants ==
    {[before_epoch |-> b, millis |-> m, nanos |-> ns] :
         b \in BOOLEAN, m \in Millis, ns \in {0, 999999}}

\* what the source returns for gen::<u16>() and then gen::<u64>()
MixedDraws == Draws \cup {<<FromNat(1, W16), Shl(FromNat(1, W64), 63)>>}

\* Ulys::from_datetime_with_source(datetime, source)
FromDatetime(datetime, r16, r64) ==
    /\ core = <<>>
    /\ core' = <<CoreCall("from_datetime", <<datetime, r16, r64>>,
                          from_datetime_with_source(datetime, r16, r64))>>
    /\ UNCHANGED <<previous, log, codec, cli, clock>>

\* Ulys::from_datetime_with_source(datetime, source).datetime()
DatetimeOfResult ==
    /\ Len(core) = 1
    /\ core[1].fn = "from_datetime"
    /\ core' = Append(core, CoreCall("datetime", core[1].ret, datetime_of(core[1].ret)))
    /\ UNCHANGED <<previous, log, codec, cli, clock>>

NextCore ==
    \/ \E id \in Ids : Increment(id)
    \/ \E t \in Timestamps, r \in Randoms : FromParts(t, r)
    \/ \E id \in Ids : Reassemble(id)
    \/ \E value \in Values, buffer \in Buffers : EncodeTo(value, buffer)
    \/ \E id \in Values, buf \in Buffers : ToStr(id, buf)
    \/ \E id \in Ids : ToBytes(id)
    \/ \E bytes \in ByteArrays : FromBytes(bytes)
    \/ \E id \in Ids : ToPair(id)
    \/ \E pair \in Pairs : FromPair(pair)
    \/ ConvertBack
    \/ \E datetime \in Instants, d \in MixedDraws : FromDatetime(datetime, d[1], d[2])
    \/ DatetimeOfResult

SpecCore == Init /\ [][NextCore]_vars

(***************************************************************************)
(* The command line tool (cli/src/bin/ulys.rs) asked for `count`           *)
(* identifiers in monotonic mode.  cli holds the position in `generate`,   *)
(* its counter i, its Generator and the lines written to stdout; clock is  *)
(* the system clock that Generator::generate reads, in milliseconds since  *)
(* the epoch.                                                              *)
(***************************************************************************)
\* crate::time_utils::now()
now == [before_epoch |-> FALSE, millis |-> clock]

\* the system clock is set or runs on to another reading
ClockMoves(t) ==
    /\ t # clock
    /\ clock' = t
    /\ UNCHANGED <<previous, log, codec, core, cli>>

\* main: generate(opt.count, true) up to the first test of the loop
Main(count) ==
    /\ cli.pc = "main"
    /\ cli' = [pc |-> "loop", count |-> count, i |-> 0, gen |-> nil, out |-> <<>>]
    /\ UNCHANGED <<previous, log, codec, core, clock>>

\* one pass of `while i < count`: gen.generate() and its match
Iterate(r16, r64) ==
    /\ cli.pc = "loop"
    /\ cli.i < cli.count
    /\ LET out == generate_from_datetime_with_source(cli.gen, now, r16, r64)
       IN  IF out.result.ok
           THEN cli' = [cli EXCEPT !.gen = out.previous,
                                   !.out = Append(@, out.result.value),
                                   !.i = @ + 1]
           ELSE cli' = [cli EXCEPT !.gen = out.previous, !.pc = "sleep"]
    /\ UNCHANGED <<previous, log, codec, core, clock>>

\* thread::sleep(Duration::from_millis(1)) returns; i is not incremented
Sleep ==
    /\ cli.pc = "sleep"
    /\ cli' = [cli EXCEPT !.pc = "loop"]
    /\ UNCHANGED <<previous, log, codec, core, clock>>

\* `while i < count` is false: generate returns
Return ==
    /\ cli.pc = "loop"
    /\ cli.i >= cli.count
    /\ cli' = [cli EXCEPT !.pc = "done"]
    /\ UNCHANGED <<previous, log, codec, core, clock>>

NextCli ==
    \/ \E t \in Millis : ClockMoves(t)
    \/ \E count \in 0..MaxCount : Main(count)
    \/ \E d \in Draws : Iterate(d[1], d[2])
    \/ Sleep
    \/ Return

SpecCli == Init /\ [][NextCli]_vars

(***************************************************************************)
(* Properties of the generator, stated on the log of its calls.            *)
(***************************************************************************)
Calls == 1..Len(log)

\* the milliseconds call i was given, as the generator reads them
NowMs(i) == millis_since_epoch(log[i].datetime)

\* the timestamp of `previous` as call i found it, widened as the code widens it
LastMs(i) == Cast(timestamp_ms(log[i].before), W128)

\* `previous` as call i left it
After(i) == IF i = Len(log) THEN previous ELSE log[i + 1].before

\* C1: every identifier returned with Ok is strictly greater than every
\* identifier returned by an earlier Ok call of the same generator.
C1_StrictlyIncreasing ==
    \A i \in Calls : \A j \in Calls :
        (i < j /\ log[i].result.ok /\ log[j].result.ok)
            => Lt(log[i].result.value, log[j].result.value)

\* C2: a call returns Overflow exactly when the supplied time is not after
\* the stored timestamp and the stored random field is saturated; it leaves
\* `previous` unchanged, and a following call with a strictly later time
\* than the stored timestamp returns Ok.
C2_OverflowKeepsPrevious ==
    \A i \in Calls :
        /\ ~log[i].result.ok <=>
               (Le(NowMs(i), LastMs(i)) /\ random(log[i].before) = MAX_RANDOM)
        /\ ~log[i].result.ok =>
               /\ log[i].result.err = "Overflow"
               /\ After(i) = log[i].before
               /\ (i < Len(log) /\ Lt(LastMs(i + 1), NowMs(i + 1)))
                      => log[i + 1].result.ok

C2_Witness ==
    \E i \in Calls :
        /\ ~log[i].result.ok
        /\ i < Len(log)
        /\ Lt(LastMs(i + 1), NowMs(i + 1))
        /\ log[i + 1].result.ok
        /\ log[i + 1].before = log[i].before

\* two calls in a row, the first returning Ok, given the same time in ms
SameTimeTwice(i) ==
    /\ i \in Calls
    /\ i > 1
    /\ log[i - 1].result.ok
    /\ NowMs(i) = NowMs(i - 1)

C4_LaterTimeIsFresh ==
    \A i \in Calls :
        Lt(LastMs(i), NowMs(i)) =>
            /\ log[i].result.ok
            /\ Cast(timestamp_ms(log[i].result.value), W128) = NowMs(i)
            /\ Lt(log[i].before, log[i].result.value)
            /\ After(i) = log[i].result.value

(***************************************************************************)
(* Properties of the codec, stated on the calls of a session.              *)
(***************************************************************************)
\* the session is an encode of an input followed by a decode of its output
IsEncodeDecode ==
    Len(codec) = 2 /\ codec[1].fn = "encode" /\ codec[2].fn = "decode"

\* the session is a decode of an input followed by an encode of its value
IsDecodeEncode ==
    Len(codec) = 2 /\ codec[1].fn = "decode" /\ codec[2].fn = "encode"

\* the session starts with a decode of an input string
IsDecode == Len(codec) >= 1 /\ codec[1].fn = "decode"

\* the session is two encodes of two inputs
IsEncodeEncode ==
    Len(codec) = 2 /\ codec[1].fn = "encode" /\ codec[2].fn = "encode"

\* s has ULYS_LEN bytes, all of them symbols of ALPHABET
OnlyAlphabet(s) == Len(s) = ULYS_LEN /\ \A i \in 1..Len(s) : s[i] \in AlphabetBytes

\* the 5-bit value of an alphabet symbol: its index in ALPHABET
SymbolValue(c) == (CHOOSE i \in 1..32 : ALPHABET[i] = c) - 1

\* C5: decode(encode(v)) returns Ok(v) for every 128-bit value v.
C5_DecodeEncodeRoundTrip ==
    IsEncodeDecode =>
        /\ codec[2].text = codec[1].text
        /\ codec[2].ok
        /\ codec[2].value = codec[1].value

C5_Witness ==
    /\ IsEncodeDecode
    /\ codec[2].ok
    /\ codec[1].value = BitNot(FromNat(1, W128))

\* C6 as claimed: for every 26-character string s of alphabet symbols,
\* decode(s) succeeds and encode(decode(s)) equals lowercase(s).
C6_EncodeDecodeRoundTrip ==
    (IsDecode /\ OnlyAlphabet(codec[1].text)) =>
        /\ codec[1].ok
        /\ IsDecodeEncode => codec[2].text = lowercase(codec[1].text)

\* C6 as amended: for every 26-character string s of alphabet symbols
\* decode(s) succeeds, and encode(decode(s)) equals lowercase(s) when the
\* first symbol of s is one of '0'..'7' (a 5-bit value below 8).
C6_EncodeDecodeRoundTripBelow8 ==
    (IsDecode /\ OnlyAlphabet(codec[1].text)) =>
        /\ codec[1].ok
        /\ (IsDecodeEncode /\ SymbolValue(codec[1].text[1]) < 8)
               => codec[2].text = lowercase(codec[1].text)

C6_Witness ==
    /\ IsDecodeEncode
    /\ OnlyAlphabet(codec[1].text)
    /\ SymbolValue(codec[1].text[1]) = 7
    /\ codec[1].text[2] = 122
    /\ codec[2].text = codec[1].text

\* C7: decode is case-insensitive: for every 26-character alphabet string
\* written in upper, lower or mixed case, LOOKUP maps each byte to the index
\* of its lowercase form, and decode succeeds with the value of
\* decode(lowercase(s)).
C7_DecodeCaseInsensitive ==
    (IsDecode /\ OnlyAlphabet(lowercase(codec[1].text))) =>
        LET s == codec[1].text
        IN  /\ \A i \in 1..Len(s) : LOOKUP[s[i] + 1] = LOOKUP[lowercase(s)[i] + 1]
            /\ codec[1].ok
            /\ codec[1].value = decode(lowercase(s)).value

\* C8: decode of a string whose length is not 26 returns InvalidLength,
\* whatever bytes the string holds.
C8_WrongLengthIsInvalidLength ==
    (IsDecode /\ Len(codec[1].text) # ULYS_LEN) =>
        /\ ~codec[1].ok
        /\ codec[1].err = "InvalidLength"

C8_Witness ==
    /\ IsDecode
    /\ Len(codec[1].text) = ULYS_LEN + 1
    /\ \E i \in 1..ULYS_LEN : codec[1].text[i] \notin (AlphabetBytes \cup UpperBytes)
    /\ codec[1].err = "InvalidLength"

\* C9: decode of a 26-byte string holding, at any position, a byte that is
\* no alphabet symbol in either case returns InvalidChar.
C9_ForeignByteIsInvalidChar ==
    (/\ IsDecode
     /\ Len(codec[1].text) = ULYS_LEN
     /\ \E i \in 1..ULYS_LEN : codec[1].text[i] \notin (AlphabetBytes \cup UpperBytes)) =>
        /\ ~codec[1].ok
        /\ codec[1].err = "InvalidChar"

C9_Witness ==
    /\ IsDecode
    /\ Len(codec[1].text) = ULYS_LEN
    /\ codec[1].text[ULYS_LEN] = 108
    /\ \A i \in 1..(ULYS_LEN - 1) : codec[1].text[i] \in AlphabetBytes
    /\ codec[1].err = "InvalidChar"

\* C10: a < b as 128-bit integers exactly when encode(a) < encode(b) as
\* strings; in particular identifiers of equal timestamps order, as values
\* and as strings, by their random fields.
C10_OrderIsLexicographic ==
    IsEncodeEncode =>
        LET a == codec[1].value
            b == codec[2].value
        IN  /\ Lt(a, b) <=> str_lt(codec[1].text, codec[2].text)
            /\ (timestamp_ms(a) = timestamp_ms(b) /\ Lt(random(a), random(b)))
                   => (Lt(a, b) /\ str_lt(codec[1].text, codec[2].text))

C10_Witness ==
    /\ IsEncodeEncode
    /\ codec[1].value = from_parts(FromNat(1, W64), FromNat(1, W128))
    /\ codec[2].value = from_parts(FromNat(1, W64), Ones(W128))
    /\ str_lt(codec[1].text, codec[2].text)

(***************************************************************************)
(* Properties of the identifier's own operations, stated on core.          *)
(***************************************************************************)
CoreCalls == 1..Len(core)

\* the low 80 bits of id are all ones
RandomSaturated(id) == Cast(id, RAND_BITS) = Ones(RAND_BITS)

\* C11: increment returns None exactly when the low 80 bits of the
\* identifier are all ones (2^128 - 1 included); otherwise it returns
\* Some(id + 1), whose timestamp_ms is that of id and whose random is
\* id.random() + 1.
C11_IncrementWithinTimestamp ==
    \A n \in CoreCalls :
        core[n].fn = "increment" =>
            LET id == core[n].arg
                next == core[n].ret
            IN  /\ ~next.some <=> RandomSaturated(id)
                /\ next.some =>
                       /\ next.value = AddOne(id)
                       /\ timestamp_ms(next.value) = timestamp_ms(id)
                       /\ random(next.value) = AddOne(random(id))

\* increment has refused the largest identifier and one whose random field
\* alone is saturated, and has carried across limbs in another
C11_Witness ==
    \E n \in CoreCalls :
        /\ core[n].fn = "increment"
        /\ \/ core[n].arg = Ones(W128) /\ ~core[n].ret.some
           \/ core[n].arg = MAX_RANDOM /\ ~core[n].ret.some
           \/ core[n].arg = BitNot(Shl(Ones(W128), 79)) /\ core[n].ret.some

\* v mod 2^bits, at the width w
Mod2(v, bits, w) == Cast(Cast(v, bits), w)

\* C12: from_parts(t, r) discards the bits of t above 48 and of r above 80
\* and packs ((t mod 2^48) << 80) | (r mod 2^80); timestamp_ms and random
\* then return t mod 2^48 and r mod 2^80, and from_parts(id.timestamp_ms(),
\* id.random()) is id for every identifier.
C12_FromPartsPacksModulo ==
    \A n \in CoreCalls :
        /\ core[n].fn = "from_parts" =>
               LET t == core[n].arg[1]
                   r == core[n].arg[2]
                   id == core[n].ret
               IN  /\ id = BitOr(Shl(Mod2(t, TIME_BITS, W128), RAND_BITS), Mod2(r, RAND_BITS, W128))
                   /\ timestamp_ms(id) = Mod2(t, TIME_BITS, W64)
                   /\ random(id) = Mod2(r, RAND_BITS, W128)
        /\ core[n].fn = "reassemble" => core[n].ret = core[n].arg

\* from_parts has been given a timestamp above 48 bits with a random above
\* 80 bits, and an identifier has been split and put together again
C12_Witness ==
    \E n \in CoreCalls :
        \/ /\ core[n].fn = "from_parts"
           /\ core[n].arg = <<Ones(W64), Ones(W128)>>
           /\ core[n].ret = Ones(W128)
        \/ /\ core[n].fn = "reassemble"
           /\ core[n].arg = Ones(W128)

\* C13: the all-ones identifier (2^128 - 1) encodes to the alphabet's last
\* symbol 'z' repeated 26 times.
C13_AllOnesIsAllZ ==
    \A n \in 1..Len(codec) :
        (codec[n].fn = "encode" /\ codec[n].value = Ones(W128))
            => codec[n].text = Repeat(122, ULYS_LEN)

\* C13 (amended): the all-ones identifier encodes to '7' followed by 'z'
\* repeated 25 times: 26 symbols hold 130 bits, and the two bits above the
\* 128 of the value are zero.
C13_AllOnesIsSevenThenZ ==
    \A n \in 1..Len(codec) :
        (codec[n].fn = "encode" /\ codec[n].value = Ones(W128))
            => codec[n].text = <<55>> \o Repeat(122, ULYS_LEN - 1)

\* the all-ones identifier has been encoded
C13_Witness ==
    \E n \in 1..Len(codec) :
        /\ codec[n].fn = "encode"
        /\ codec[n].value = Ones(W128)
        /\ Len(codec[n].text) = ULYS_LEN

\* what encode_to_array writes into a [u8; ULYS_LEN] for value
ArrayOf(value) == encode_to_array(value, Repeat(0, ULYS_LEN))

\* C14: encode_to, and Ulys::to_str through it, return Err(BufferTooSmall)
\* for every buffer shorter than 26 bytes and leave it as it was; for every
\* buffer of 26 bytes or more they succeed with length 26, bytes 0..25 of the
\* buffer are what encode_to_array writes for the value, and the bytes from
\* index 26 on are unchanged.
C14_EncodeToChecksBuffer ==
    \A n \in CoreCalls :
        core[n].fn \in {"encode_to", "to_str"} =>
            LET value == core[n].arg[1]
                buffer == core[n].arg[2]
                result == core[n].ret.result
                after == core[n].ret.buffer
            IN  /\ Len(after) = Len(buffer)
                /\ Len(buffer) < ULYS_LEN =>
                       /\ ~result.ok
                       /\ result.err = "BufferTooSmall"
                       /\ after = buffer
                /\ Len(buffer) >= ULYS_LEN =>
                       /\ result.ok
                       /\ core[n].fn = "encode_to" => result.value = ULYS_LEN
                       /\ core[n].fn = "to_str" => result.value = ArrayOf(value)
                       /\ SubSeq(after, 1, ULYS_LEN) = ArrayOf(value)
                       /\ \A i \in (ULYS_LEN + 1)..Len(buffer) : after[i] = buffer[i]

\* a buffer one byte short has been refused, and buffers of exactly 26 bytes
\* and of more have been written
C14_Witness ==
    \E n \in CoreCalls :
        /\ core[n].fn \in {"encode_to", "to_str"}
        /\ \/ Len(core[n].arg[2]) = ULYS_LEN - 1 /\ ~core[n].ret.result.ok
           \/ Len(core[n].arg[2]) = ULYS_LEN /\ core[n].ret.result.ok
           \/ Len(core[n].arg[2]) > ULYS_LEN /\ core[n].ret.result.ok

\* byte i (0 = most significant) of the 128-bit value id
ByteOf(id, i) == ToNat(BitAnd(Shr(id, 8 * (15 - i)), FromNat(255, W128)))

\* C15: identifier <-> big-endian [u8; 16] and identifier <-> (msb, lsb) are
\* lossless both ways: converting the result of either conversion back gives
\* the input again; byte 0 and msb hold the most significant bits, so the
\* first six bytes, and msb without its low 16 bits, are the timestamp.
C15_ConversionsAreLossless ==
    /\ Len(core) = 2 /\ core[1].fn \in {"to_bytes", "from_bytes", "to_pair", "from_pair"}
           => core[2].ret = core[1].arg
    /\ \A n \in CoreCalls :
           LET bytes == IF core[n].fn = "to_bytes" THEN core[n].ret ELSE core[n].arg
               pair == IF core[n].fn = "to_pair" THEN core[n].ret ELSE core[n].arg
               id == IF core[n].fn \in {"to_bytes", "to_pair"} THEN core[n].arg ELSE core[n].ret
           IN  /\ core[n].fn \in {"to_bytes", "from_bytes"} =>
                      /\ Len(bytes) = 16
                      /\ \A i \in 0..15 : bytes[i + 1] = ByteOf(id, i)
                      /\ from_be_bytes(Repeat(0, 10) \o SubSeq(bytes, 1, 6))
                             = Cast(timestamp_ms(id), W128)
               /\ core[n].fn \in {"to_pair", "from_pair"} =>
                      /\ pair[1] \o pair[2] = id
                      /\ Shr(pair[1], 16) = timestamp_ms(id)

\* an identifier whose bytes all differ has gone to bytes and back, and a
\* pair with different words has gone to an identifier and back
C15_Witness ==
    /\ Len(core) = 2
    /\ \/ /\ core[1].fn = "to_bytes"
          /\ core[1].arg = Tuple([k \in 1..8 |-> 16705], 8)
          /\ core[2].fn = "from_bytes"
       \/ /\ core[1].fn = "from_bytes"
          /\ core[1].arg = Tuple([i \in 1..16 |-> 15 * i + 1], 16)
          /\ core[2].fn = "to_bytes"
       \/ /\ core[1].fn = "from_pair"
          /\ core[1].arg = <<Ones(W64), Zero(W64)>>
          /\ core[2].fn = "to_pair"
       \/ /\ core[1].fn = "to_pair"
          /\ core[1].arg = Ones(W128)
          /\ core[2].fn = "from_pair"

(***************************************************************************)
(* Properties of the command line tool.                                    *)
(***************************************************************************)
\* C16: the monotonic loop of the command line tool counts only successful
\* generations (an Overflow leads to the sleep and leaves the counter as it
\* was), the identifiers it prints are strictly increasing, and when it
\* returns it has printed exactly count identifiers.
C16_CliPrintsIncreasing ==
    /\ cli.i = Len(cli.out)
    /\ cli.i <= cli.count
    /\ cli.pc = "done" => Len(cli.out) = cli.count
    /\ \A m \in 1..Len(cli.out) : \A n \in 1..Len(cli.out) :
           m < n => Lt(cli.out[m], cli.out[n])

\* the session is a construction from a datetime followed by datetime()
IsFromDatetime == Len(core) >= 1 /\ core[1].fn = "from_datetime"

\* C17: from_datetime_with_source gives an identifier whose timestamp_ms is
\* the whole milliseconds from the epoch to the datetime, mod 2^48; a
\* datetime before the epoch counts as the epoch, so the timestamp is 0 and
\* datetime() is UNIX_EPOCH; the 80 random bits are the drawn u16 followed
\* by the drawn u64.
C17_FromDatetimePacksTimeAndDraws ==
    IsFromDatetime =>
        LET datetime == core[1].arg[1]
            r16 == core[1].arg[2]
            r64 == core[1].arg[3]
            id == core[1].ret
        IN  /\ ~datetime.before_epoch => timestamp_ms(id) = Mod2(datetime.millis, TIME_BITS, W64)
            /\ datetime.before_epoch => timestamp_ms(id) = Zero(W64)
            /\ Cast(id, RAND_BITS) = r16 \o r64
            /\ Len(core) = 2 =>
                   /\ core[2].ret.millis = Cast(timestamp_ms(id), W128)
                   /\ datetime.before_epoch => core[2].ret = UNIX_EPOCH

\* a datetime before the epoch, and one 2^48 ms after it with nanoseconds to
\* spare, have been turned into identifiers and read back
C17_Witness ==
    /\ IsFromDatetime
    /\ Len(core) = 2
    /\ \/ core[1].arg[1].before_epoch /\ core[1].arg[1].millis # Zero(W128)
       \/ /\ ~core[1].arg[1].before_epoch
          /\ core[1].arg[1].millis = BitOr(TimeWrap, FromNat(1, W128))
          /\ core[1].arg[1].nanos > 0
          /\ core[2].ret.millis = FromNat(1, W128)

\* C18: when the supplied milliseconds are at most previous.timestamp_ms()
\* (the same millisecond or an earlier one, the first call of a fresh
\* generator at or before the epoch included) and the call returns Ok, the
\* identifier is previous + 1: it carries the stored timestamp, not the
\* supplied time, nothing is drawn from the random source, and previous
\* becomes the identifier returned.
C18_NotLaterTimeIncrements ==
    \A i \in Calls :
        (Le(NowMs(i), LastMs(i)) /\ log[i].result.ok) =>
            /\ log[i].result.value = AddOne(log[i].before)
            /\ timestamp_ms(log[i].result.value) = timestamp_ms(log[i].before)
            /\ Lt(NowMs(i), LastMs(i)) =>
                   Cast(timestamp_ms(log[i].result.value), W128) # NowMs(i)
            /\ log[i].drawn = 0
            /\ After(i) = log[i].result.value

\* a fresh generator has been called with a datetime before the epoch, and
\* a later call has come with an earlier time than the stored one
C18_Witness ==
    /\ \E i \in Calls : /\ log[i].before = nil
                        /\ log[i].datetime.before_epoch
                        /\ log[i].result = Ok(FromNat(1, W128))
    /\ \E j \in Calls : /\ Lt(NowMs(j), LastMs(j))
                        /\ log[j].result.ok

\* the 5 bits of v that symbol i (0 = leftmost) stands for
FiveBits(v, i) == ToNat(BitAnd(Shr(v, 5 * (ULYS_LEN - 1 - i)), FromNat(31, W128)))

\* C19: encode always gives exactly 26 bytes, each a symbol of the alphabet;
\* symbol i (0 = leftmost) is ALPHABET[(v >> 5*(25-i)) & 31], so the first
\* symbol is one of '0'..'7'; zero encodes to 26 times '0' and
\* 0x41414141414141414141414141414141 to "21850m2ga1850m2ga1850m2ga1".
C19_EncodeIsPositional ==
    \A n \in 1..Len(codec) :
        codec[n].fn = "encode" =>
            LET v == codec[n].value
                text == codec[n].text
            IN  /\ codec[n].ok
                /\ OnlyAlphabet(text)
                /\ \A i \in 0..(ULYS_LEN - 1) : text[i + 1] = ALPHABET[FiveBits(v, i) + 1]
                /\ text[1] \in 48..55
                /\ v = Zero(W128) => text = Repeat(48, ULYS_LEN)
                /\ v = Tuple([k \in 1..8 |-> 16705], 8) => text = TestText1

\* zero, the 0x41 pattern and a value with its top bit set have been encoded
C19_Witness ==
    /\ Len(codec) = 2
    /\ codec[1].fn = "encode"
    /\ codec[2].fn = "encode"
    /\ codec[1].value \in {Zero(W128), Shl(FromNat(1, W128), 127)}
    /\ codec[2].value = Tuple([k \in 1..8 |-> 16705], 8)

\* call i was given a time of 2^48 ms or more
BeyondTimeWrap(i) == ~Lt(NowMs(i), TimeWrap)

\* C20: the supplied milliseconds are compared untruncated with the 48-bit
\* stored timestamp, so for a supplied time of 2^48 ms or more 'now_ms <=
\* last_ms' is false whatever the generator holds: the call never returns
\* Overflow, draws a fresh identifier and stores it, and its timestamp_ms is
\* the supplied time mod 2^48.
C20_BeyondWrapAlwaysFresh ==
    \A i \in Calls :
        BeyondTimeWrap(i) =>
            /\ ~Le(NowMs(i), LastMs(i))
            /\ \A held \in Values : ~Le(NowMs(i), Cast(timestamp_ms(held), W128))
            /\ log[i].result.ok
            /\ log[i].drawn = 2
            /\ timestamp_ms(log[i].result.value) = Mod2(NowMs(i), TIME_BITS, W64)
            /\ \E d \in Draws : Cast(log[i].result.value, RAND_BITS) = d[1] \o d[2]
            /\ After(i) = log[i].result.value

\* a generator holding the largest identifier, which no increment can
\* follow, has been called with a time of 2^48 ms or more
C20_Witness ==
    \E i \in Calls :
        /\ BeyondTimeWrap(i)
        /\ log[i].before = Ones(W128)
        /\ log[i].result.ok

\* s with its first symbol replaced by the symbol of that value mod 8
FirstSymbolMod8(s) == ReplaceAt(s, 1, ALPHABET[(SymbolValue(s[1]) % 8) + 1])

\* C21: decode has no value-range error: its only errors are InvalidLength
\* and InvalidChar, and for a 26-character alphabet string whose first symbol
\* has a value of 8 or more it returns Ok with the two bits above bit 127
\* shifted out, which is the value of the same string with the first
\* symbol's value reduced mod 8.
C21_DecodeDiscardsExcessBits ==
    IsDecode =>
        LET s == codec[1].text
        IN  /\ codec[1].err \in {"none", "InvalidLength", "InvalidChar"}
            /\ (OnlyAlphabet(s) /\ SymbolValue(s[1]) >= 8) =>
                   /\ codec[1].ok
                   /\ ToNat(Shr(codec[1].value, 125)) = SymbolValue(s[1]) % 8
                   /\ \A i \in 1..(ULYS_LEN - 1) :
                          FiveBits(codec[1].value, i) = SymbolValue(s[i + 1])
                   /\ Ok(codec[1].value) = decode(FirstSymbolMod8(s))

\* a string of 26 times 'z', whose first symbol has the value 31, has been
\* decoded to the all-ones value
C21_Witness ==
    /\ IsDecode
    /\ codec[1].text = Repeat(122, ULYS_LEN)
    /\ codec[1].ok
    /\ codec[1].value = Ones(W128)

====
